---- MODULE Spec2Model ----
(***************************************************************************)
(* A model of the two decoders of the geotiff crate:                       *)
(*                                                                         *)
(*   - CoordinateTransform (src/src/coordinate_transform.rs): selection,   *)
(*     construction and application of the raster <-> model transform;     *)
(*   - GeoKeyDirectory (src/src/geo_key_directory.rs): decoding of the     *)
(*     GeoKey directory from its three tag payloads.                       *)
(*                                                                         *)
(* Both are pure functions.  Each is modelled by operators that compute    *)
(* what the Rust code computes, and by a specification whose initial       *)
(* states draw the inputs from bounded sets and whose actions apply the    *)
(* functions: SpecCT for the coordinate transform, SpecGK for the GeoKey   *)
(* directory.                                                              *)
(*                                                                         *)
(* Numbers.  f64 values are modelled in exact arithmetic as normalised     *)
(* rationals <<n, d>> (d > 0, gcd(n, d) = 1); a non-finite result of a     *)
(* division by zero (inf or NaN) is the single value NonFinite.  u16       *)
(* values are integers in 0..65535 and keep their width: an addition or    *)
(* subtraction that leaves the range either panics (overflow checks on,    *)
(* the debug profile) or wraps modulo 2^16 (overflow checks off, the       *)
(* release profile).                                                       *)
(***************************************************************************)
EXTENDS Integers, Sequences, FiniteSets, TLC

VARIABLES
    \* ---- coordinate transform ----
    tie_points_feature,        \* cfg(feature = "tie-points") of the build
    matrix_exp,                \* decimal exponent of the matrix payload (see Coefficient scale)
    pixel_scale_data,          \* Option<Vec<f64>>
    model_tie_points_data,     \* Option<Vec<f64>>
    model_transformation_data, \* Option<Vec<f64>>
    ct_pc,                     \* "input" | "resolved" | "off"
    transform,                 \* TiffResult<CoordinateTransform>
    path,                      \* the transform calls made so far, in order
    trail,                     \* the starting point, then the result of each call
    \* ---- GeoKey directory ----
    directory_data,            \* &[u16]
    double_params,             \* &[f64]
    ascii_params,              \* &str, as a sequence of characters
    gk_pc,                     \* "input" | "decoded" | "off"
    decoded                    \* outcome of GeoKeyDirectory::from_tag_data

ct_vars == <<tie_points_feature, matrix_exp, pixel_scale_data, model_tie_points_data,
             model_transformation_data, ct_pc, transform, path, trail>>
gk_vars == <<directory_data, double_params, ascii_params, gk_pc, decoded>>
vars == <<ct_vars, gk_vars>>

----------------------------------------------------------------------------
(* Option<T> *)

None == [some |-> FALSE, data |-> <<>>]
Some(v) == [some |-> TRUE, data |-> v]

\* Rust indexes from 0, TLA+ sequences from 1.
At(s, i) == s[i + 1]

----------------------------------------------------------------------------
(* Exact arithmetic standing for f64 *)

Abs(n) == IF n < 0 THEN -n ELSE n

RECURSIVE Gcd(_, _)
Gcd(a, b) == IF b = 0 THEN a ELSE Gcd(b, a % b)

NonFinite == <<0, 0>>
IsFinite(q) == q[2] # 0

Rat(n, d) ==
    IF d = 0 THEN NonFinite
    ELSE LET g == Gcd(Abs(n), Abs(d))
             s == IF d < 0 THEN -1 ELSE 1
         IN  <<(s * n) \div g, (s * d) \div g>>

Int2Rat(n) == <<n, 1>>

RAdd(p, q) == IF IsFinite(p) /\ IsFinite(q) THEN Rat(p[1] * q[2] + q[1] * p[2], p[2] * q[2]) ELSE NonFinite
RNeg(p) == IF IsFinite(p) THEN <<-p[1], p[2]>> ELSE NonFinite
RSub(p, q) == RAdd(p, RNeg(q))
RMul(p, q) == IF IsFinite(p) /\ IsFinite(q) THEN Rat(p[1] * q[1], p[2] * q[2]) ELSE NonFinite
RDiv(p, q) == IF IsFinite(p) /\ IsFinite(q) THEN Rat(p[1] * q[2], p[2] * q[1]) ELSE NonFinite

\* geo_types::Coord
Coord(x, y) == [x |-> x, y |-> y]

----------------------------------------------------------------------------
(* TiffResult<T>: Ok(value) or Err(TiffError::FormatError(Format(msg))).    *)
(* msg is the message text with its format arguments left out.              *)

Ok(variant, value) == [tag |-> "Ok", variant |-> variant, value |-> value]
FormatError(msg) == [tag |-> "Err", variant |-> "FormatError", value |-> msg]
Unresolved == [tag |-> "None", variant |-> "", value |-> ""]

----------------------------------------------------------------------------
(* Coefficient scale.  The matrix payload is given as integer mantissas m   *)
(* with one decimal exponent e for the whole matrix: the f64 value is       *)
(* m * 10^-e.  All arithmetic on the coefficients is exact and homogeneous  *)
(* in that scale (model-space coordinates carry 10^-e, the linear part of   *)
(* the inverse 10^e), so it is carried out on the mantissas; the scale      *)
(* matters in one place only, the comparison of the determinant (scale      *)
(* 10^-2e) with the literal 0.000000000000001 = 10^-EpsExp.                 *)

EpsExp == 15

RECURSIVE Pow10(_)
Pow10(k) == IF k = 0 THEN 1 ELSE 10 * Pow10(k - 1)

\* det.abs() < 0.000000000000001, for det = (n/d) * 10^-2e.  When 2e < EpsExp
\* the denominators of the model are far below 10^(EpsExp - 2e), and only a
\* zero determinant is below the threshold.
AbsBelowEpsilonNoAbs(det, e) ==
    IF 2 * e >= EpsExp
    THEN det[1] < det[2] * Pow10(2 * e - EpsExp)
    ELSE det[1] <= 0

AbsBelowEpsilon(det, e) ==
    IF 2 * e >= EpsExp
    THEN Abs(det[1]) < det[2] * Pow10(2 * e - EpsExp)
    ELSE det[1] = 0

----------------------------------------------------------------------------
(* AffineTransform *)

\* The closed-form inverse with the sign of the off-diagonal terms lost.
InverseOfWrongSign(t, det) ==
    << RDiv(At(t, 4), det),
       RDiv(At(t, 1), det),
       RDiv(RSub(RMul(At(t, 1), At(t, 5)), RMul(At(t, 2), At(t, 4))), det),
       RDiv(At(t, 3), det),
       RDiv(At(t, 0), det),
       RDiv(RAdd(RMul(RNeg(At(t, 0)), At(t, 5)), RMul(At(t, 2), At(t, 3))), det) >>

InverseOf(t, det) ==
    << RDiv(At(t, 4), det),
       RDiv(RNeg(At(t, 1)), det),
       RDiv(RSub(RMul(At(t, 1), At(t, 5)), RMul(At(t, 2), At(t, 4))), det),
       RDiv(RNeg(At(t, 3)), det),
       RDiv(At(t, 0), det),
       RDiv(RAdd(RMul(RNeg(At(t, 0)), At(t, 5)), RMul(At(t, 2), At(t, 3))), det) >>

\* let transform = [matrix[0], matrix[1], matrix[3], matrix[4], matrix[5], matrix[7]]
Coefficients(matrix) ==
    << Int2Rat(At(matrix, 0)), Int2Rat(At(matrix, 1)), Int2Rat(At(matrix, 3)),
       Int2Rat(At(matrix, 4)), Int2Rat(At(matrix, 5)), Int2Rat(At(matrix, 7)) >>

\* let det = transform[0] * transform[4] - transform[1] * transform[3]
Determinant(t) == RSub(RMul(At(t, 0), At(t, 4)), RMul(At(t, 1), At(t, 3)))

AffineTransform_from_tag_matrix(matrix, e) ==
    LET t == Coefficients(matrix)
        det == Determinant(t)
    IN  IF AbsBelowEpsilon(det, e)
        THEN FormatError("Provided transformation matrix is not invertible")
        ELSE Ok("AffineTransform", [transform |-> t, inverse_transform |-> InverseOf(t, det)])

AffineTransform_transform(matrix, c) ==
    Coord(RAdd(RAdd(RMul(c.x, At(matrix, 0)), RMul(c.y, At(matrix, 1))), At(matrix, 2)),
          RAdd(RAdd(RMul(c.x, At(matrix, 3)), RMul(c.y, At(matrix, 4))), At(matrix, 5)))

AffineTransform_to_model(self, c) == AffineTransform_transform(self.transform, c)

AffineTransform_to_raster(self, c) == AffineTransform_transform(self.inverse_transform, c)

----------------------------------------------------------------------------
(* TiePointAndPixelScale *)

TiePointAndPixelScale_from_tag_data(tie_points, pixel_scale) ==
    [ raster_point |-> Coord(Int2Rat(At(tie_points, 0)), Int2Rat(At(tie_points, 1))),
      model_point  |-> Coord(Int2Rat(At(tie_points, 3)), Int2Rat(At(tie_points, 4))),
      pixel_scale  |-> Coord(Int2Rat(At(pixel_scale, 0)), Int2Rat(At(pixel_scale, 1))) ]

TiePointAndPixelScale_to_model(self, c) ==
    Coord(RAdd(RMul(RSub(c.x, self.raster_point.x), self.pixel_scale.x), self.model_point.x),
          RAdd(RMul(RSub(c.y, self.raster_point.y), RNeg(self.pixel_scale.y)), self.model_point.y))

\* The inverse with the negation of the y scale forgotten.
TiePointAndPixelScale_to_raster_NoNeg(self, c) ==
    Coord(RAdd(RDiv(RSub(c.x, self.model_point.x), self.pixel_scale.x), self.raster_point.x),
          RAdd(RDiv(RSub(c.y, self.model_point.y), self.pixel_scale.y), self.raster_point.y))

TiePointAndPixelScale_to_raster(self, c) ==
    Coord(RAdd(RDiv(RSub(c.x, self.model_point.x), self.pixel_scale.x), self.raster_point.x),
          RAdd(RDiv(RSub(c.y, self.model_point.y), RNeg(self.pixel_scale.y)), self.raster_point.y))

----------------------------------------------------------------------------
(* CoordinateTransform *)

\* <[f64; 3]>::try_from(data) succeeds; the mutant accepts longer arrays too.
PixelScaleLenOkAtLeast(data) == Len(data) >= 3

PixelScaleLenOk(data) == Len(data) = 3

\* <[f64; 16]>::try_from(data) succeeds
MatrixLenOk(data) == Len(data) = 16

\* The two checks made once the matrix is known to be present; the mutant
\* forgets the one on the tie points.
MatrixExclusivePixelScaleOnly(pixel_scale, tie_points) ==
    IF pixel_scale.some
    THEN FormatError("ModelPixelScaleTag must not be specified when ModelTransformationTag is present")
    ELSE Unresolved

MatrixExclusive(pixel_scale, tie_points) ==
    IF pixel_scale.some
    THEN FormatError("ModelPixelScaleTag must not be specified when ModelTransformationTag is present")
    ELSE IF tie_points.some
    THEN FormatError("ModelTiePointTag must not be specified when ModelTransformationTag is present")
    ELSE Unresolved

\* feature: cfg(feature = "tie-points"); e: the decimal exponent of the matrix.
\* The TiePoints variant is built by the tie_points module, which is not part
\* of the modelled sources: its value is kept opaque.
CoordinateTransform_from_tag_data(pixel_scale, tie_points, transformation_matrix, e, feature) ==
    IF pixel_scale.some /\ ~PixelScaleLenOk(pixel_scale.data)
    THEN FormatError("Number values in ModelPixelScaleTag must be equal to 3")
    ELSE IF tie_points.some /\ Len(tie_points.data) = 0
    THEN FormatError("Number of values in ModelTiePointTag must be greater than 0")
    ELSE IF tie_points.some /\ Len(tie_points.data) % 6 # 0
    THEN FormatError("Number of values in ModelTiePointTag must be divisible by 6")
    ELSE IF transformation_matrix.some /\ ~MatrixLenOk(transformation_matrix.data)
    THEN FormatError("Number of values in ModelTransformationTag must be equal to 16")
    ELSE IF transformation_matrix.some
    THEN LET excl == MatrixExclusive(pixel_scale, tie_points)
         IN  IF excl.tag = "Err" THEN excl
             ELSE AffineTransform_from_tag_matrix(transformation_matrix.data, e)
    ELSE IF ~tie_points.some
    THEN FormatError("ModelTiePointTag must be present when ModelTransformationTag is missing")
    ELSE IF Len(tie_points.data) = 6
    THEN IF ~pixel_scale.some
         THEN FormatError("ModelPixelScaleTag must be specified when ModelTiePointTag contains 6 values")
         ELSE Ok("TiePointAndPixelScale",
                 TiePointAndPixelScale_from_tag_data(tie_points.data, pixel_scale.data))
    ELSE IF feature
    THEN Ok("TiePoints", [tie_points |-> tie_points.data])
    ELSE FormatError("Transformation by tie points is not supported")

CoordinateTransform_transform_to_model(self, c) ==
    IF self.variant = "AffineTransform"
    THEN AffineTransform_to_model(self.value, c)
    ELSE TiePointAndPixelScale_to_model(self.value, c)

CoordinateTransform_transform_to_raster(self, c) ==
    IF self.variant = "AffineTransform"
    THEN AffineTransform_to_raster(self.value, c)
    ELSE TiePointAndPixelScale_to_raster(self.value, c)

----------------------------------------------------------------------------
(* Inputs and steps of the coordinate transform *)

\* Raster and model points are drawn from -MaxPoint..MaxPoint on each axis;
\* at most MaxCalls transform calls are chained.
MaxPoint == 1
MaxCalls == 2

Points == {Coord(Int2Rat(x), Int2Rat(y)) : x \in -MaxPoint..MaxPoint, y \in -MaxPoint..MaxPoint}

MatrixCoefs == {-3, 0, 4}
MatrixTranslations == {<<0, 0>>, <<2, -1>>}
MatrixExps == {0, 8}

\* A row-major 4x4 matrix with linear part (a b / c d) and translation t.
Matrix16(a, b, c, d, t) == <<a, b, 0, t[1], c, d, 0, t[2], 0, 0, 1, 0, 0, 0, 0, 1>>

MatrixSamples ==
    {Matrix16(a, b, c, d, t) : a \in MatrixCoefs, b \in MatrixCoefs, c \in MatrixCoefs,
                               d \in MatrixCoefs, t \in MatrixTranslations}
    \cup {SubSeq(Matrix16(4, 0, 0, 4, <<0, 0>>), 1, 15),
          Matrix16(4, 0, 0, 4, <<0, 0>>) \o <<0>>,
          <<>>}

ScaleValues == {-3, 0, 2}

PixelScaleSamples ==
    {<<sx, sy, 0>> : sx \in ScaleValues, sy \in ScaleValues}
    \cup {<<2, 2>>, <<2, 2, 0, 0>>}

TiePoint(r, m) == <<r[1], r[2], 0, m[1], m[2], 0>>

TiePointSamples ==
    {TiePoint(r, m) : r \in {<<0, 0>>, <<1, 2>>}, m \in {<<0, 0>>, <<3, -1>>}}
    \cup {<<>>,
          SubSeq(TiePoint(<<1, 2>>, <<3, -1>>), 1, 5),
          TiePoint(<<1, 2>>, <<3, -1>>) \o <<0>>,
          TiePoint(<<0, 0>>, <<0, 0>>) \o TiePoint(<<1, 2>>, <<3, -1>>)}

Options(S) == {None} \cup {Some(v) : v \in S}

GKOff ==
    /\ directory_data = <<>>
    /\ double_params = <<>>
    /\ ascii_params = <<>>
    /\ gk_pc = "off"
    /\ decoded = Unresolved

InitCT ==
    /\ tie_points_feature \in BOOLEAN
    /\ matrix_exp \in MatrixExps
    /\ pixel_scale_data \in Options(PixelScaleSamples)
    /\ model_tie_points_data \in Options(TiePointSamples)
    /\ model_transformation_data \in Options(MatrixSamples)
    /\ ct_pc = "input"
    /\ transform = Unresolved
    /\ path = <<>>
    /\ trail = <<>>
    /\ GKOff

ct_inputs == <<tie_points_feature, matrix_exp, pixel_scale_data, model_tie_points_data,
               model_transformation_data>>

\* The caller resolves the transform from the three tag payloads.
Resolve ==
    /\ ct_pc = "input"
    /\ transform' = CoordinateTransform_from_tag_data(pixel_scale_data, model_tie_points_data,
                        model_transformation_data, matrix_exp, tie_points_feature)
    /\ ct_pc' = "resolved"
    /\ UNCHANGED <<ct_inputs, path, trail, gk_vars>>

\* The variants whose mapping code is modelled.
Mappable == transform.tag = "Ok" /\ transform.variant \in {"AffineTransform", "TiePointAndPixelScale"}

\* The caller maps a point: a fresh one first, then the result of the last call.
TransformToModel ==
    /\ ct_pc = "resolved" /\ Mappable /\ Len(path) < MaxCalls
    /\ \E p \in (IF path = <<>> THEN Points ELSE {trail[Len(trail)]}) :
          /\ trail' = (IF path = <<>> THEN <<p>> ELSE trail)
                        \o <<CoordinateTransform_transform_to_model(transform, p)>>
          /\ path' = Append(path, "to_model")
    /\ UNCHANGED <<ct_inputs, ct_pc, transform, gk_vars>>

TransformToRaster ==
    /\ ct_pc = "resolved" /\ Mappable /\ Len(path) < MaxCalls
    /\ \E p \in (IF path = <<>> THEN Points ELSE {trail[Len(trail)]}) :
          /\ trail' = (IF path = <<>> THEN <<p>> ELSE trail)
                        \o <<CoordinateTransform_transform_to_raster(transform, p)>>
          /\ path' = Append(path, "to_raster")
    /\ UNCHANGED <<ct_inputs, ct_pc, transform, gk_vars>>

NextCT == Resolve \/ TransformToModel \/ TransformToRaster

SpecCT == InitCT /\ [][NextCT]_vars

----------------------------------------------------------------------------
(* GeoKeyDirectoryTag, RasterType and tiff::tags::Tag *)

\* enum GeoKeyDirectoryTag (repr(u16)): id :> variant.
GeoKeyDirectoryTag ==
    (1024 :> "ModelType") @@ (1025 :> "RasterType") @@ (1026 :> "Citation") @@
    (2048 :> "GeographicType") @@ (2049 :> "GeogCitation") @@ (2050 :> "GeogGeodeticDatum") @@
    (2051 :> "GeogPrimeMeridian") @@ (2052 :> "GeogLinearUnits") @@
    (2053 :> "GeogLinearUnitSize") @@ (2054 :> "GeogAngularUnits") @@
    (2055 :> "GeogAngularUnitSize") @@ (2056 :> "GeogEllipsoid") @@
    (2057 :> "GeogSemiMajorAxis") @@ (2058 :> "GeogSemiMinorAxis") @@
    (2059 :> "GeogInvFlattening") @@ (2060 :> "GeogAzimuthUnits") @@
    (2061 :> "GeogPrimeMeridianLong") @@
    (3072 :> "ProjectedType") @@ (3073 :> "ProjCitation") @@ (3074 :> "Projection") @@
    (3075 :> "ProjCoordTrans") @@ (3076 :> "ProjLinearUnits") @@
    (3077 :> "ProjLinearUnitSize") @@ (3078 :> "ProjStdParallel1") @@
    (3079 :> "ProjStdParallel2") @@ (3080 :> "ProjNatOriginLong") @@
    (3081 :> "ProjNatOriginLat") @@ (3082 :> "ProjFalseEasting") @@
    (3083 :> "ProjFalseNorthing") @@ (3084 :> "ProjFalseOriginLong") @@
    (3085 :> "ProjFalseOriginLat") @@ (3086 :> "ProjFalseOriginEasting") @@
    (3087 :> "ProjFalseOriginNorthing") @@ (3088 :> "ProjCenterLong") @@
    (3089 :> "ProjCenterLat") @@ (3090 :> "ProjCenterEasting") @@
    (3091 :> "ProjCenterNorthing") @@ (3092 :> "ProjScaleAtNatOrigin") @@
    (3093 :> "ProjScaleAtCenter") @@ (3094 :> "ProjAzimuthAngle") @@
    (3095 :> "ProjStraightVertPoleLong") @@
    (4096 :> "Vertical") @@ (4097 :> "VerticalCitation") @@ (4098 :> "VerticalDatum") @@
    (4099 :> "VerticalUnits")

GeoKeyNames == {GeoKeyDirectoryTag[id] : id \in DOMAIN GeoKeyDirectoryTag}

\* The accessor each arm of the match in from_tag_data calls.
ShortKeys ==
    {"ModelType", "GeographicType", "GeogGeodeticDatum", "GeogPrimeMeridian",
     "GeogLinearUnits", "GeogAngularUnits", "GeogEllipsoid", "GeogAzimuthUnits",
     "ProjectedType", "Projection", "ProjCoordTrans", "ProjLinearUnits",
     "Vertical", "VerticalDatum", "VerticalUnits"}
RasterTypeKeys == {"RasterType"}
StringKeys == {"Citation", "GeogCitation", "ProjCitation", "VerticalCitation"}
DoubleKeys == GeoKeyNames \ (ShortKeys \cup RasterTypeKeys \cup StringKeys)

\* enum RasterType (repr(u16)): value :> variant.
RasterType ==
    (0 :> "Undefined") @@ (1 :> "RasterPixelIsArea") @@ (2 :> "RasterPixelIsPoint") @@
    (32767 :> "UserDefined")

\* tiff::tags::Tag: the ids of the variants the tiff crate names.  Tag::from_u16
\* returns None for every other value (0 is not a TIFF tag).
GeoDoubleParamsTag == 34736
GeoAsciiParamsTag == 34737
KnownTiffTags ==
    {254, 255, 256, 257, 258, 259, 262, 263, 264, 265, 266, 270, 271, 272, 273, 274,
     277, 278, 279, 280, 281, 282, 283, 284, 288, 289, 290, 291, 296, 305, 306, 315,
     316, 317, 320, 322, 323, 324, 325, 338, 339, 340, 341, 347, 33432,
     33550, 33922, 34264, 34735, GeoDoubleParamsTag, GeoAsciiParamsTag, 42113}

Tag_from_u16(n) == IF n \in KnownTiffTags THEN Some(n) ELSE None

\* Tag::from_u16 as it would be if every non-zero id named a location.
Tag_from_u16_NonZero(n) == IF n # 0 THEN Some(n) ELSE None

----------------------------------------------------------------------------
(* Outcomes of the GeoKey decoder.  A FormatError carries its message text   *)
(* (format arguments left out), the key the message names with {:?} (NoKey   *)
(* when it names none) and the index of the directory entry being decoded    *)
(* (NoEntry before the loop).  A panic is an abnormal abort of the call.     *)

NoKey == ""
NoEntry == -1

KeyFormatError(msg, key) ==
    [tag |-> "Err", variant |-> "FormatError", value |-> msg, key |-> key, entry |-> NoEntry]
Panic(msg) ==
    [tag |-> "Panic", variant |-> "panic", value |-> msg, key |-> NoKey, entry |-> NoEntry]

AtEntry(r, i) == [r EXCEPT !.entry = i]

----------------------------------------------------------------------------
(* u16 arithmetic *)

U16Modulus == 65536

\* a + b and a - b in u16: the wrapped value, and whether it left the range.
U16Add(a, b) == [value |-> (a + b) % U16Modulus, overflow |-> a + b >= U16Modulus]
U16Sub(a, b) == [value |-> (a - b + U16Modulus) % U16Modulus, overflow |-> a < b]

----------------------------------------------------------------------------
(* DirectoryEntry *)

DirectoryEntry(key_tag, location_tag, count, value_or_offset) ==
    [key_tag |-> key_tag, location_tag |-> location_tag, count |-> count,
     value_or_offset |-> value_or_offset]

\* self.location_tag != Some(tag)
LocationIsNot(self, tag) == ~(self.location_tag.some /\ self.location_tag.data = tag)

\* short() returning the count in place of the value.
DirectoryEntry_short_ReturnsCount(self) ==
    IF self.location_tag.some
    THEN KeyFormatError("Key {:?} did not have the expected SHORT value type.", self.key_tag)
    ELSE IF self.count # 1
    THEN KeyFormatError("Unexpected count: expected 1, got {}.", NoKey)
    ELSE Ok("u16", self.count)

DirectoryEntry_short(self) ==
    IF self.location_tag.some
    THEN KeyFormatError("Key {:?} did not have the expected SHORT value type.", self.key_tag)
    ELSE IF self.count # 1
    THEN KeyFormatError("Unexpected count: expected 1, got {}.", NoKey)
    ELSE Ok("u16", self.value_or_offset)

\* double() testing the offset before the location and the count.
DirectoryEntry_double_OffsetFirst(self, data) ==
    IF self.value_or_offset >= Len(data)
    THEN KeyFormatError("Offset out of bounds: the length is {} but the offset is {}", NoKey)
    ELSE IF LocationIsNot(self, GeoDoubleParamsTag)
    THEN KeyFormatError("Key {:?} did not have the expected DOUBLE value type.", self.key_tag)
    ELSE IF self.count # 1
    THEN KeyFormatError("Unexpected count: expected 1, got {}.", NoKey)
    ELSE Ok("f64", At(data, self.value_or_offset))

DirectoryEntry_double(self, data) ==
    IF LocationIsNot(self, GeoDoubleParamsTag)
    THEN KeyFormatError("Key {:?} did not have the expected DOUBLE value type.", self.key_tag)
    ELSE IF self.count # 1
    THEN KeyFormatError("Unexpected count: expected 1, got {}.", NoKey)
    ELSE IF self.value_or_offset >= Len(data)
    THEN KeyFormatError("Offset out of bounds: the length is {} but the offset is {}", NoKey)
    ELSE Ok("f64", At(data, self.value_or_offset))

\* overflow_checks: whether the build panics on integer overflow (the debug
\* profile) or wraps (the release profile).
DirectoryEntry_string(self, data, overflow_checks) ==
    LET start == self.value_or_offset
        sum == U16Add(self.value_or_offset, self.count)
        diff == U16Sub(sum.value, 1)
        end == diff.value
    IN  IF LocationIsNot(self, GeoAsciiParamsTag)
        THEN KeyFormatError("Key {:?} did not have the expected ASCII value type.", self.key_tag)
        ELSE IF start >= Len(data)
        THEN KeyFormatError("Start offset out of bounds: the length is {} but the offset is {}.", NoKey)
        ELSE IF overflow_checks /\ sum.overflow
        THEN Panic("attempt to add with overflow")
        ELSE IF overflow_checks /\ diff.overflow
        THEN Panic("attempt to subtract with overflow")
        ELSE IF end >= Len(data)
        THEN KeyFormatError("End offset out of bounds: the length is {} but the offset is {}.", NoKey)
        ELSE IF start > end
        THEN Panic("begin <= end ({} <= {}) when slicing {}")
        ELSE Ok("String", SubSeq(data, start + 1, end))

----------------------------------------------------------------------------
(* GeoKeyDirectory *)

\* impl Default for GeoKeyDirectory.  fields[k] is the optional field that the
\* match arm of key k writes (model_type for ModelType, and so on).
GeoKeyDirectory_default ==
    [ key_directory_version |-> 1, key_revision |-> 1, minor_revision |-> 1,
      fields |-> [k \in GeoKeyNames |-> None] ]

GeoKeyDirectoryTag_try_from(id) ==
    IF id \in DOMAIN GeoKeyDirectoryTag
    THEN Ok("GeoKeyDirectoryTag", GeoKeyDirectoryTag[id])
    ELSE KeyFormatError("Unknown GeoKeyDirectoryTag: {}", NoKey)

RasterType_try_from(raster_type) ==
    IF raster_type \in DOMAIN RasterType
    THEN Ok("RasterType", RasterType[raster_type])
    ELSE KeyFormatError("Unknown raster type: {raster_type}", NoKey)

\* The value the match arm of entry.key_tag stores, or the error it returns.
EntryValue(entry, double_data, ascii_data, overflow_checks) ==
    IF entry.key_tag \in ShortKeys THEN DirectoryEntry_short(entry)
    ELSE IF entry.key_tag \in RasterTypeKeys
    THEN LET raster_type == DirectoryEntry_short(entry)
         IN  IF raster_type.tag = "Ok" THEN RasterType_try_from(raster_type.value)
             ELSE raster_type
    ELSE IF entry.key_tag \in StringKeys
    THEN DirectoryEntry_string(entry, ascii_data, overflow_checks)
    ELSE DirectoryEntry_double(entry, double_data)

\* directory_data.len() - 4 != 4 * number_of_keys, negated; the mutant accepts
\* a directory holding more entries than declared.
NumberOfKeysMatchesAtLeast(data) == Len(data) - 4 >= 4 * At(data, 3)

NumberOfKeysMatches(data) == Len(data) - 4 = 4 * At(data, 3)

\* for entry in directory_data[4..].chunks_exact(4), from chunk i on.
RECURSIVE DecodeEntries(_, _, _, _, _, _)
DecodeEntries(directory, data, i, double_data, ascii_data, overflow_checks) ==
    IF 4 * i + 8 > Len(data)
    THEN Ok("GeoKeyDirectory", directory)
    ELSE LET chunk == SubSeq(data, 4 * i + 5, 4 * i + 8)
             key == GeoKeyDirectoryTag_try_from(At(chunk, 0))
         IN  IF key.tag # "Ok" THEN AtEntry(key, i)
             ELSE LET entry == DirectoryEntry(key.value, Tag_from_u16(At(chunk, 1)),
                                              At(chunk, 2), At(chunk, 3))
                      v == EntryValue(entry, double_data, ascii_data, overflow_checks)
                  IN  IF v.tag # "Ok" THEN AtEntry(v, i)
                      ELSE DecodeEntries(
                               [directory EXCEPT !.fields[entry.key_tag] = Some(v.value)],
                               data, i + 1, double_data, ascii_data, overflow_checks)

\* from_tag_data without the assignment of line 76: the default minor
\* revision stays in the record.
GeoKeyDirectory_from_tag_data_DefaultMinor(data, double_data, ascii_data, overflow_checks) ==
    IF Len(data) < 4
    THEN KeyFormatError("Unexpected length of directory data: must be at least 4.", NoKey)
    ELSE IF ~NumberOfKeysMatches(data)
    THEN KeyFormatError("Unexpected length of directory data: number of keys does not match length of directory data.", NoKey)
    ELSE DecodeEntries(
             [GeoKeyDirectory_default EXCEPT !.key_directory_version = At(data, 0),
                                             !.key_revision = At(data, 1)],
             data, 0, double_data, ascii_data, overflow_checks)

GeoKeyDirectory_from_tag_data(data, double_data, ascii_data, overflow_checks) ==
    IF Len(data) < 4
    THEN KeyFormatError("Unexpected length of directory data: must be at least 4.", NoKey)
    ELSE IF ~NumberOfKeysMatches(data)
    THEN KeyFormatError("Unexpected length of directory data: number of keys does not match length of directory data.", NoKey)
    ELSE DecodeEntries(
             [GeoKeyDirectory_default EXCEPT !.key_directory_version = At(data, 0),
                                             !.key_revision = At(data, 1),
                                             !.minor_revision = At(data, 2)],
             data, 0, double_data, ascii_data, overflow_checks)

----------------------------------------------------------------------------
(* Inputs and steps of the GeoKey decoder *)

\* A directory holds at most MaxKeys entries.
MaxKeys == 2

\* Entries <<keyId, locationTag, count, valueOrOffset>>.  Location 1 is a
\* non-zero id that names no TIFF tag, 256 (ImageWidth) a TIFF tag that is
\* neither auxiliary array.
ModelTypeEntries ==
    {<<1024, 0, 1, 0>>, <<1024, 0, 1, 2>>, <<1024, 0, 1, 65535>>, <<1024, 0, 0, 2>>,
     <<1024, 0, 2, 2>>, <<1024, 1, 1, 2>>, <<1024, GeoDoubleParamsTag, 1, 2>>, <<1024, GeoAsciiParamsTag, 3, 0>>}
RasterTypeEntries ==
    {<<1025, 0, 1, 1>>, <<1025, 0, 1, 3>>, <<1025, 0, 1, 32767>>, <<1025, 0, 2, 1>>,
     <<1025, 256, 1, 1>>}
VerticalUnitsEntries == {<<4099, 0, 1, 9001>>}
CitationEntries ==
    {<<1026, GeoAsciiParamsTag, c[1], c[2]>> :
        c \in {<<3, 0>>, <<1, 0>>, <<0, 0>>, <<0, 2>>, <<1, 2>>, <<4, 0>>, <<3, 3>>,
               <<65535, 2>>, <<65535, 1>>}}
    \cup {<<1026, 0, 1, 0>>}
GeogSemiMajorAxisEntries ==
    {<<2057, GeoDoubleParamsTag, c, v>> : c \in {1, 2}, v \in {0, 2}}
    \cup {<<2057, GeoDoubleParamsTag, 1, 1>>, <<2057, 0, 1, 0>>, <<2057, 0, 1, 2>>,
          <<2057, GeoAsciiParamsTag, 1, 2>>}
UnknownKeyEntries == {<<1023, 0, 1, 0>>}

EntrySamples ==
    ModelTypeEntries \cup RasterTypeEntries \cup VerticalUnitsEntries \cup CitationEntries
        \cup GeogSemiMajorAxisEntries \cup UnknownKeyEntries

\* Headers <<KeyDirectoryVersion, KeyRevision, MinorRevision>>.
HeaderSamples == {<<1, 1, 0>>, <<2, 3, 4>>}

DoubleParamsSamples == {<<>>, <<<<11, 2>>, <<-7, 1>>>>}
AsciiParamsSamples == {<<>>, <<"a", "b", "|">>}

RECURSIVE EntrySeqs(_)
EntrySeqs(n) ==
    IF n = 0 THEN {<<>>}
    ELSE {es \o e : es \in EntrySeqs(n - 1), e \in EntrySamples}

\* The directory arrays built from a header and the flattened entries es:
\* the well-formed one, one declaring a key too many, one with a stray
\* trailing element, and one cut below the header length.
DirectoriesOf(h, es) ==
    LET n == Len(es) \div 4
    IN  { h \o <<n>> \o es,
          h \o <<n + 1>> \o es,
          h \o <<n>> \o es \o <<1024>>,
          h }

CTOff ==
    /\ tie_points_feature = FALSE
    /\ matrix_exp = 0
    /\ pixel_scale_data = None
    /\ model_tie_points_data = None
    /\ model_transformation_data = None
    /\ ct_pc = "off"
    /\ transform = Unresolved
    /\ path = <<>>
    /\ trail = <<>>

InitGK ==
    /\ \E n \in 0..MaxKeys : \E h \in HeaderSamples, es \in EntrySeqs(n) :
          directory_data \in DirectoriesOf(h, es)
    /\ double_params \in DoubleParamsSamples
    /\ ascii_params \in AsciiParamsSamples
    /\ gk_pc = "input"
    /\ decoded = Unresolved
    /\ CTOff

\* The caller decodes the directory; the build either checks integer overflow
\* or wraps.
Decode ==
    /\ gk_pc = "input"
    /\ \E overflow_checks \in BOOLEAN :
          decoded' = GeoKeyDirectory_from_tag_data(directory_data, double_params,
                                                  ascii_params, overflow_checks)
    /\ gk_pc' = "decoded"
    /\ UNCHANGED <<directory_data, double_params, ascii_params, ct_vars>>

NextGK == Decode

SpecGK == InitGK /\ [][NextGK]_vars

----------------------------------------------------------------------------
(* Properties of the coordinate transform (checked under SpecCT)            *)

Resolved == ct_pc = "resolved"

IsFormatError(r) == r.tag = "Err" /\ r.variant = "FormatError"

MatrixPresent == model_transformation_data.some
MatrixAlone ==
    /\ MatrixPresent /\ Len(model_transformation_data.data) = 16
    /\ ~pixel_scale_data.some /\ ~model_tie_points_data.some

\* The determinant of the linear part, on the mantissas, read off the payload:
\* row-major positions 0, 1, 4, 5.
PayloadDet ==
    LET m == model_transformation_data.data
    IN  At(m, 0) * At(m, 5) - At(m, 1) * At(m, 4)

\* |det| < 1e-15 and det < 1e-15 for the f64 determinant PayloadDet * 10^-2e,
\* spelled out for the two exponents of MatrixExps.
PayloadDetAbsBelow1em15 ==
    IF matrix_exp = 0 THEN PayloadDet = 0 ELSE Abs(PayloadDet) < 10
PayloadDetBelow1em15 ==
    IF matrix_exp = 0 THEN PayloadDet <= 0 ELSE PayloadDet < 10

\* Every to_model call directly followed by to_raster gives the point back.
RasterRoundTrip ==
    \A i \in 1..(Len(path) - 1) :
        (path[i] = "to_model" /\ path[i + 1] = "to_raster") => trail[i + 2] = trail[i]

\* Every to_raster call directly followed by to_model gives the point back.
ModelRoundTrip ==
    \A i \in 1..(Len(path) - 1) :
        (path[i] = "to_raster" /\ path[i + 1] = "to_model") => trail[i + 2] = trail[i]

\* The two input shapes of C1.
ShapeMatrix ==
    /\ MatrixAlone
    /\ AffineTransform_from_tag_matrix(model_transformation_data.data, matrix_exp).tag = "Ok"
ShapeTiePointAndScale ==
    /\ ~MatrixPresent
    /\ model_tie_points_data.some /\ Len(model_tie_points_data.data) = 6
    /\ pixel_scale_data.some /\ Len(pixel_scale_data.data) = 3

\* C1: with the tie-points feature disabled, from_tag_data succeeds exactly
\* when the input is a lone 16-value matrix that from_tag_matrix accepts
\* (giving AffineTransform) or a 6-value tie point with a 3-value pixel scale
\* and no matrix (giving TiePointAndPixelScale); every other input, among them
\* the listed malformed lengths and missing tags, gives a FormatError.
C1_ExactlyTwoShapes ==
    (Resolved /\ ~tie_points_feature) =>
        /\ ShapeMatrix => (transform.tag = "Ok" /\ transform.variant = "AffineTransform")
        /\ ShapeTiePointAndScale =>
              (transform.tag = "Ok" /\ transform.variant = "TiePointAndPixelScale")
        /\ ~(ShapeMatrix \/ ShapeTiePointAndScale) => IsFormatError(transform)
        /\ (pixel_scale_data.some /\ Len(pixel_scale_data.data) # 3) => IsFormatError(transform)
        /\ (model_tie_points_data.some /\ Len(model_tie_points_data.data) % 6 # 0)
              => IsFormatError(transform)
        /\ (model_tie_points_data.some
              /\ (Len(model_tie_points_data.data) = 0 \/ Len(model_tie_points_data.data) >= 12))
              => IsFormatError(transform)
        /\ (MatrixPresent /\ Len(model_transformation_data.data) # 16) => IsFormatError(transform)
        /\ (~MatrixPresent /\ ~model_tie_points_data.some) => IsFormatError(transform)
        /\ (model_tie_points_data.some /\ Len(model_tie_points_data.data) = 6
              /\ ~pixel_scale_data.some) => IsFormatError(transform)

C1_Witness ==
    /\ Resolved /\ ~tie_points_feature /\ ShapeTiePointAndScale
    /\ transform.tag = "Ok" /\ transform.variant = "TiePointAndPixelScale"

\* C2: a matrix given together with a pixel scale or tie points (or both) is
\* always a FormatError, whatever the three arrays hold.
C2_MatrixIsExclusive ==
    (Resolved /\ MatrixPresent /\ (pixel_scale_data.some \/ model_tie_points_data.some))
        => IsFormatError(transform)

C2_Witness ==
    /\ Resolved /\ MatrixPresent /\ Len(model_transformation_data.data) = 16
    /\ PayloadDet # 0 /\ matrix_exp = 0
    /\ ~pixel_scale_data.some
    /\ model_tie_points_data.some /\ Len(model_tie_points_data.data) = 6
    /\ IsFormatError(transform)

\* C3 as stated: every lone 16-value matrix with a nonzero determinant is
\* accepted and its two mappings are exact inverses of each other.
C3_Original ==
    (Resolved /\ MatrixAlone /\ PayloadDet # 0) =>
        /\ transform.tag = "Ok" /\ transform.variant = "AffineTransform"
        /\ RasterRoundTrip /\ ModelRoundTrip

\* C3 amended: every lone 16-value matrix whose determinant has magnitude at
\* least 1e-15 is accepted by from_tag_matrix, and then
\* to_raster(to_model(p)) = p and to_model(to_raster(p)) = p in exact
\* arithmetic; a nonzero determinant of smaller magnitude is rejected.
C3_InverseIsExact ==
    (Resolved /\ MatrixAlone /\ ~PayloadDetAbsBelow1em15) =>
        /\ transform.tag = "Ok" /\ transform.variant = "AffineTransform"
        /\ RasterRoundTrip /\ ModelRoundTrip

C3_Witness ==
    /\ Resolved /\ MatrixAlone /\ ~PayloadDetAbsBelow1em15
    /\ At(model_transformation_data.data, 1) # 0
    /\ At(model_transformation_data.data, 3) # 0
    /\ transform.tag = "Ok"
    /\ path = <<"to_model", "to_raster">>
    /\ trail[2] # trail[1] /\ trail[3] = trail[1]

\* C4 as stated: every lone 16-value matrix whose (signed) determinant is
\* below 1e-15 is rejected as not invertible.
C4_Original ==
    (Resolved /\ MatrixAlone /\ PayloadDetBelow1em15) =>
        transform = FormatError("Provided transformation matrix is not invertible")

\* C4 amended: from_tag_matrix fails with the 'not invertible' FormatError
\* exactly for the matrices whose determinant has magnitude below 1e-15
\* (|det| < 1e-15), the all-zero matrix among them; a matrix with a negative
\* determinant of magnitude at least 1e-15 is accepted.
C4_NotInvertibleIffAbsDetSmall ==
    (Resolved /\ MatrixAlone) =>
        ( transform = FormatError("Provided transformation matrix is not invertible")
            <=> PayloadDetAbsBelow1em15 )

C4_Witness ==
    /\ Resolved /\ MatrixAlone
    /\ PayloadDet # 0 /\ PayloadDetAbsBelow1em15
    /\ transform = FormatError("Provided transformation matrix is not invertible")

TiePointScaleNonzero ==
    /\ At(pixel_scale_data.data, 0) # 0
    /\ At(pixel_scale_data.data, 1) # 0

\* to_model as the claim writes it, on the payloads.
C5_ToModelOf(p) ==
    LET tie == model_tie_points_data.data
        scale == pixel_scale_data.data
    IN  Coord(RAdd(RMul(RSub(p.x, Int2Rat(At(tie, 0))), Int2Rat(At(scale, 0))), Int2Rat(At(tie, 3))),
              RAdd(RMul(RSub(p.y, Int2Rat(At(tie, 1))), Int2Rat(-At(scale, 1))), Int2Rat(At(tie, 4))))

\* C5: for a TiePointAndPixelScale built from a 6-value tie point and a
\* 3-value pixel scale with nonzero x and y scale, to_model computes
\* ((x - tie[0]) * scale.x + tie[3], (y - tie[1]) * (-scale.y) + tie[4]) and
\* to_raster(to_model(p)) = p in exact arithmetic.
C5_TiePointRoundTrip ==
    (Resolved /\ transform.tag = "Ok" /\ transform.variant = "TiePointAndPixelScale"
        /\ TiePointScaleNonzero) =>
        /\ RasterRoundTrip
        /\ \A i \in 1..Len(path) : path[i] = "to_model" => trail[i + 1] = C5_ToModelOf(trail[i])

C5_Witness ==
    /\ Resolved /\ transform.tag = "Ok" /\ transform.variant = "TiePointAndPixelScale"
    /\ TiePointScaleNonzero
    /\ At(model_tie_points_data.data, 0) # 0
    /\ path = <<"to_model", "to_raster">>
    /\ trail[2] # trail[1] /\ trail[3] = trail[1]

----------------------------------------------------------------------------
(* Properties of the GeoKey decoder (checked under SpecGK)                  *)

Decoded == gk_pc = "decoded"

\* The directory passes the two length checks.
WellFormedLength == Len(directory_data) >= 4 /\ Len(directory_data) - 4 = 4 * At(directory_data, 3)

\* The indexes of the 4-value entries present after the header, and entry i
\* as <<keyId, locationTag, count, valueOrOffset>>.
EntryIndexes == IF Len(directory_data) < 8 THEN {} ELSE 0..(((Len(directory_data) - 4) \div 4) - 1)
EntryAt(i) == SubSeq(directory_data, 4 * i + 5, 4 * i + 8)

KeyIdOf(i) == EntryAt(i)[1]
LocationOf(i) == EntryAt(i)[2]
CountOf(i) == EntryAt(i)[3]
ValueOf(i) == EntryAt(i)[4]

KnownKeyIds == (1024..1026) \cup (2048..2061) \cup (3072..3095) \cup (4096..4099)
ShortKeyIds == {id \in DOMAIN GeoKeyDirectoryTag : GeoKeyDirectoryTag[id] \in ShortKeys}
RasterTypeKeyId == 1025

\* No entry after i carries the key id of entry i.
LastOfItsKey(i) == \A j \in EntryIndexes : j > i => KeyIdOf(j) # KeyIdOf(i)

\* The optional field written for key id.
FieldOf(id) == decoded.value.fields[GeoKeyDirectoryTag[id]]

\* RasterType as u16 (IntoPrimitive).
RasterTypeAsU16(name) == CHOOSE v \in DOMAIN RasterType : RasterType[v] = name

\* C6: decode is total: every call returns Ok(record) or a FormatError and
\* never aborts abnormally (no overflow, no out-of-range or inverted slice).
C6_DecodeIsTotal ==
    Decoded => (decoded.tag = "Ok" \/ IsFormatError(decoded))

\* C7: a directory with fewer than 4 elements, or of length n >= 4 with
\* n - 4 # 4 * directory[3], gives a FormatError whatever the entries and
\* the auxiliary arrays hold.
C7_LengthChecks ==
    (Decoded /\ (Len(directory_data) < 4
                 \/ Len(directory_data) - 4 # 4 * At(directory_data, 3)))
        => (IsFormatError(decoded) /\ decoded.entry = NoEntry)

C7_Witness ==
    /\ Decoded
    /\ Len(directory_data) > 8 /\ Len(directory_data) - 4 # 4 * At(directory_data, 3)
    /\ IsFormatError(decoded)

\* C8: if any entry has a key id outside the known GeoKey ids, decode returns
\* a FormatError, wherever the entry stands and whatever its other values.
C8_UnknownKeyIsFormatError ==
    (Decoded /\ \E i \in EntryIndexes : KeyIdOf(i) \notin KnownKeyIds)
        => IsFormatError(decoded)

\* C9: for every short-typed key, an entry with count # 1 or a non-zero
\* locationTag makes decode fail with a FormatError whose message names that
\* key (stated for the first entry, which decode always reaches).
C9_ShortKeyMalformedNamesKey ==
    (Decoded /\ WellFormedLength /\ 0 \in EntryIndexes
        /\ KeyIdOf(0) \in ShortKeyIds \cup {RasterTypeKeyId}
        /\ (CountOf(0) # 1 \/ LocationOf(0) # 0))
        => (IsFormatError(decoded) /\ decoded.key = GeoKeyDirectoryTag[KeyIdOf(0)])

\* Entry i is a short-typed entry with locationTag 0 and count 1.
InlineShort(i) ==
    /\ KeyIdOf(i) \in ShortKeyIds \cup {RasterTypeKeyId}
    /\ LocationOf(i) = 0 /\ CountOf(i) = 1

\* C10 as stated: such an entry is accepted for every 16-bit value, RasterType
\* included, and the field holds exactly that value.
C10_Original ==
    (Decoded /\ WellFormedLength) =>
        \A i \in EntryIndexes : InlineShort(i) =>
            /\ decoded.tag # "Ok" => decoded.entry # i
            /\ (decoded.tag = "Ok" /\ LastOfItsKey(i)) =>
                  /\ FieldOf(KeyIdOf(i)).some
                  /\ ValueOf(i) = (IF KeyIdOf(i) = RasterTypeKeyId
                                   THEN RasterTypeAsU16(FieldOf(KeyIdOf(i)).data)
                                   ELSE FieldOf(KeyIdOf(i)).data)

\* C10 amended: for every short-typed key other than RasterType, an entry
\* with locationTag 0 and count 1 is accepted for every 16-bit valueOrOffset
\* (decode does not fail at it) and, when decode succeeds and no later entry
\* carries the same key, the field holds exactly that valueOrOffset.  For
\* RasterType the same holds when valueOrOffset is 0, 1, 2 or 32767 (the field
\* holds the RasterType of that value); any other value makes decode fail at
\* that entry with the 'Unknown raster type' FormatError, if it gets there.
C10_InlineShortAccepted ==
    (Decoded /\ WellFormedLength) =>
        \A i \in EntryIndexes : InlineShort(i) =>
            IF KeyIdOf(i) = RasterTypeKeyId /\ ValueOf(i) \notin {0, 1, 2, 32767}
            THEN /\ decoded.tag # "Ok"
                 /\ decoded.entry >= i =>
                       decoded = AtEntry(KeyFormatError("Unknown raster type: {raster_type}", NoKey), i)
            ELSE /\ decoded.tag # "Ok" => decoded.entry # i
                 /\ (decoded.tag = "Ok" /\ LastOfItsKey(i)) =>
                       /\ FieldOf(KeyIdOf(i)).some
                       /\ IF KeyIdOf(i) = RasterTypeKeyId
                          THEN FieldOf(KeyIdOf(i)).data = RasterType[ValueOf(i)]
                          ELSE FieldOf(KeyIdOf(i)).data = ValueOf(i)

C10_Witness ==
    /\ Decoded /\ WellFormedLength /\ decoded.tag = "Ok"
    /\ EntryIndexes = {0, 1}
    /\ EntryAt(0) = <<1024, 0, 1, 65535>>
    /\ EntryAt(1) = <<1025, 0, 1, 32767>>
    /\ FieldOf(1024) = Some(65535)
    /\ FieldOf(1025) = Some("UserDefined")

StringKeyIds == {id \in DOMAIN GeoKeyDirectoryTag : GeoKeyDirectoryTag[id] \in StringKeys}
DoubleKeyIds == {id \in DOMAIN GeoKeyDirectoryTag : GeoKeyDirectoryTag[id] \in DoubleKeys}

\* Decode stopped at entry i with the FormatError of message msg naming key.
FailsAt(i, msg, key) == decoded = AtEntry(KeyFormatError(msg, key), i)

\* Entry i is a string entry that names the ascii-params array and satisfies
\* both bounds, valueOrOffset < len and valueOrOffset + count - 1 < len.
StringInBounds(i) ==
    /\ LocationOf(i) = GeoAsciiParamsTag
    /\ ValueOf(i) < Len(ascii_params)
    /\ ValueOf(i) + CountOf(i) - 1 < Len(ascii_params)

\* C11: for every string-typed key, an entry that names the ascii-params
\* array with valueOrOffset < len and valueOrOffset + count - 1 < len decodes
\* to the count - 1 characters of ascii_params from position valueOrOffset
\* (decode does not stop at it, and the field holds that substring when decode
\* succeeds and no later entry carries the key); an entry that violates a
\* bound or names another location makes decode fail, with a FormatError
\* when decode gets to it.
C11_StringSubstring ==
    (Decoded /\ WellFormedLength) =>
        \A i \in EntryIndexes : KeyIdOf(i) \in StringKeyIds =>
            IF StringInBounds(i)
            THEN /\ decoded.tag # "Ok" => decoded.entry # i
                 /\ (decoded.tag = "Ok" /\ LastOfItsKey(i)) =>
                       FieldOf(KeyIdOf(i)) =
                           Some(SubSeq(ascii_params, ValueOf(i) + 1, ValueOf(i) + CountOf(i) - 1))
            ELSE /\ decoded.tag # "Ok"
                 /\ decoded.entry >= i => (IsFormatError(decoded) /\ decoded.entry = i)

\* Entry i is a double entry whose valueOrOffset is no index of double_params.
DoubleOutOfRange(i) == KeyIdOf(i) \in DoubleKeyIds /\ ValueOf(i) >= Len(double_params)

\* Entry i is a double entry naming the double-params array with count 1 and
\* an offset in range.
DoubleInRange(i) ==
    /\ KeyIdOf(i) \in DoubleKeyIds /\ LocationOf(i) = GeoDoubleParamsTag
    /\ CountOf(i) = 1 /\ ValueOf(i) < Len(double_params)

DoubleFieldHolds(i) ==
    DoubleInRange(i) =>
        /\ decoded.tag # "Ok" => decoded.entry # i
        /\ (decoded.tag = "Ok" /\ LastOfItsKey(i)) =>
              FieldOf(KeyIdOf(i)) = Some(At(double_params, ValueOf(i)))

OffsetOutOfBounds == "Offset out of bounds: the length is {} but the offset is {}"

\* C12 as stated: a double entry with valueOrOffset >= len(double_params)
\* makes decode fail, and when decode gets to it the error is the
\* offset-out-of-bounds error whatever its count and locationTag are.
C12_Original ==
    (Decoded /\ WellFormedLength) =>
        \A i \in EntryIndexes :
            /\ DoubleOutOfRange(i) =>
                  /\ decoded.tag # "Ok"
                  /\ decoded.entry >= i => FailsAt(i, OffsetOutOfBounds, NoKey)
            /\ DoubleFieldHolds(i)

\* C12 amended: a double entry with valueOrOffset >= len(double_params) makes
\* decode fail; when decode gets to it the error is the DOUBLE value type
\* error naming the key if locationTag is not the double-params tag, else the
\* unexpected-count error if count # 1, and the offset-out-of-bounds error
\* only when the location and the count are right.  With the double-params
\* location, count 1 and an offset in range the field holds
\* double_params[valueOrOffset].
C12_DoubleOffsetCheckedLast ==
    (Decoded /\ WellFormedLength) =>
        \A i \in EntryIndexes :
            /\ DoubleOutOfRange(i) =>
                  /\ decoded.tag # "Ok"
                  /\ decoded.entry >= i =>
                        IF LocationOf(i) # GeoDoubleParamsTag
                        THEN FailsAt(i, "Key {:?} did not have the expected DOUBLE value type.",
                                     GeoKeyDirectoryTag[KeyIdOf(i)])
                        ELSE IF CountOf(i) # 1
                        THEN FailsAt(i, "Unexpected count: expected 1, got {}.", NoKey)
                        ELSE FailsAt(i, OffsetOutOfBounds, NoKey)
            /\ DoubleFieldHolds(i)

C12_Witness ==
    /\ Decoded /\ WellFormedLength /\ EntryIndexes = {0, 1}
    /\ EntryAt(0) = <<2057, GeoDoubleParamsTag, 1, 1>>
    /\ EntryAt(1) = <<2057, 0, 1, 2>>
    /\ Len(double_params) = 2
    /\ FailsAt(1, "Key {:?} did not have the expected DOUBLE value type.", "GeogSemiMajorAxis")

\* The outcome of decoding entry i alone, under the header of the directory.
SingleOutcome(i, overflow_checks) ==
    GeoKeyDirectory_from_tag_data(SubSeq(directory_data, 1, 3) \o <<1>> \o EntryAt(i),
                                  double_params, ascii_params, overflow_checks)

\* Entry i is individually well-formed: alone, it decodes in every build.
WellFormedEntry(i) == \A oc \in BOOLEAN : SingleOutcome(i, oc).tag = "Ok"

FirstMalformed == CHOOSE i \in EntryIndexes :
    ~WellFormedEntry(i) /\ \A j \in EntryIndexes : j < i => WellFormedEntry(j)

\* C13: entries are processed in directory order and a repeated key id is no
\* error: when every entry is individually well-formed decode succeeds and
\* each field holds the value of the last entry carrying its key id; when
\* some entry is malformed, even one whose key a later entry carries again,
\* decode fails with the FormatError of the first malformed entry.
C13_LastWriteWinsFirstErrorAborts ==
    (Decoded /\ WellFormedLength) =>
        IF \A i \in EntryIndexes : WellFormedEntry(i)
        THEN /\ decoded.tag = "Ok"
             /\ \A i \in EntryIndexes : LastOfItsKey(i) =>
                   FieldOf(KeyIdOf(i)) = SingleOutcome(i, TRUE).value.fields[GeoKeyDirectoryTag[KeyIdOf(i)]]
        ELSE /\ IsFormatError(decoded)
             /\ \E oc \in BOOLEAN : decoded = AtEntry(SingleOutcome(FirstMalformed, oc), FirstMalformed)

\* The key ids the directory entries carry.
KeyIdsPresent == {KeyIdOf(i) : i \in EntryIndexes}

\* C14: on every successful decode the three header fields are directory[0],
\* directory[1], directory[2] verbatim, and an optional field is Some iff its
\* key id appears in some entry; [1,1,0,1, 1024,0,1,2] gives 1/1/0 with
\* model_type = Some(2) and every other field None; a well-formed directory
\* with no key decodes, whatever its header, to a record with every field None.
C14_HeaderVerbatimFieldsIffPresent ==
    /\ (Decoded /\ decoded.tag = "Ok") =>
          /\ decoded.value.key_directory_version = At(directory_data, 0)
          /\ decoded.value.key_revision = At(directory_data, 1)
          /\ decoded.value.minor_revision = At(directory_data, 2)
          /\ \A id \in DOMAIN GeoKeyDirectoryTag : FieldOf(id).some <=> id \in KeyIdsPresent
          /\ directory_data = <<1, 1, 0, 1, 1024, 0, 1, 2>> =>
                decoded.value =
                    [ key_directory_version |-> 1, key_revision |-> 1, minor_revision |-> 0,
                      fields |-> [k \in GeoKeyNames |-> IF k = "ModelType" THEN Some(2) ELSE None] ]
    /\ (Decoded /\ WellFormedLength /\ At(directory_data, 3) = 0) =>
          /\ decoded.tag = "Ok"
          /\ \A id \in DOMAIN GeoKeyDirectoryTag : FieldOf(id) = None

C14_Witness ==
    /\ Decoded /\ decoded.tag = "Ok"
    /\ directory_data = <<2, 3, 4, 2, 1024, 0, 1, 2, 4099, 0, 1, 9001>>
    /\ decoded.value.key_directory_version = 2 /\ decoded.value.key_revision = 3
    /\ decoded.value.minor_revision = 4
    /\ FieldOf(1024) = Some(2) /\ FieldOf(4099) = Some(9001) /\ FieldOf(1025) = None

====
